---- MODULE Spec2Model ----
(***************************************************************************)
(* Generation-and-repair pipeline of the AI Listing Writer (src/app1.py):  *)
(* primary model call -> safe_json_extract -> validate_and_repair ->       *)
(* ensure_length -> rendered result.  One action per model call; each      *)
(* action also performs all local computation up to the next call.         *)
(***************************************************************************)
EXTENDS Integers, Sequences, FiniteSets, TLC

(* ---------------------------------------------------------------- bounds *)

\* Largest number of surrounding whitespace characters of a modelled string.
MaxPad == 1

\* Values of the "MLS Character Limit" slider (500..1800, step 50) explored.
Limits == {1000}

(* ----------------------------------------------------------- JSON values *)

REQUIRED_KEYS == <<"mls_description", "social_caption", "instagram_hashtags", "video_script_60s">>

RequiredSet == {REQUIRED_KEYS[i] : i \in 1..Len(REQUIRED_KEYS)}

\* One key the schema does not ask for, which a model response may still carry.
ExtraKey == "notes"

Keys == RequiredSet \cup {ExtraKey}

\* A JSON value stored under a key.  t = "str": a string whose trimmed text
\* has `len` characters, with `pad` whitespace characters around it (strings
\* of different `len` stand for different texts); t = "null": JSON null (falsy, not a string); t = "num": a
\* non-zero number (truthy, not a string).
NullV == [t |-> "null", pad |-> 0, len |-> 0]
NumV == [t |-> "num", pad |-> 0, len |-> 0]
Str(p, n) == [t |-> "str", pad |-> p, len |-> n]
EmptyStr == Str(0, 0)

\* isinstance(v, str)
IsStr(v) == v.t = "str"

\* len(s) of a string: every character counts, whitespace included.
StrLen(v) == v.pad + v.len

\* s.strip(): the surrounding whitespace is removed, the text is kept.
Strip(v) == [v EXCEPT !.pad = 0]

\* Python truthiness of a value: None and "" are falsy.
Truthy(v) == IF v.t = "str" THEN StrLen(v) > 0 ELSE v.t = "num"

\* A dict is a function whose domain is the set of keys it holds.
EmptyDict == [k \in {} |-> NullV]

\* dict.get(k): None when the key is absent.
Get(d, k) == IF k \in DOMAIN d THEN d[k] ELSE NullV

\* d[k] = v on a copy of d.
Put(d, k, v) == [x \in (DOMAIN d) \cup {k} |-> IF x = k THEN v ELSE d[x]]

(* ------------------------------------------------- model responses (text) *)

\* json.loads of a whole text yields an object (dict) or some other JSON
\* value; `(x or {})` and `.get` separate falsy non-objects (null, 0, [], "")
\* from truthy ones ([1], 5, "x").
JObject(d) == [kind |-> "object", obj |-> d]
JFalsy == [kind |-> "falsy", obj |-> EmptyDict]
JTruthy == [kind |-> "truthy", obj |-> EmptyDict]

\* The raw text of a response.  core "json": a well-formed JSON document
\* `val`; core "braces": text holding a '{' before a '}' whose first-'{'-to-
\* last-'}' span is not JSON; core "plain": text that is not JSON and has no
\* such span.  noise: non-whitespace text before or after a "json" core.
JsonText(n, j) == [noise |-> n, core |-> "json", val |-> j]
BracesText == [noise |-> FALSE, core |-> "braces", val |-> JFalsy]
PlainText == [noise |-> FALSE, core |-> "plain", val |-> JFalsy]

\* The outcome of a call that can raise.
Ok(v) == [ok |-> TRUE, exc |-> "none", val |-> v]
Raise(e) == [ok |-> FALSE, exc |-> e, val |-> JFalsy]

\* json.loads(text): only a well-formed document with nothing around it.
json_loads(text) ==
    IF text.core = "json" /\ ~text.noise THEN Ok(text.val) ELSE Raise("JSONDecodeError")

\* text.find("{") != -1 and text.rfind("}") != -1 and end > start
HasBraceSpan(text) ==
    \/ text.core = "braces"
    \/ text.core = "json" /\ text.val.kind = "object"

\* text[start:end+1]: the span from the first '{' to the last '}'.
BraceSpan(text) == [text EXCEPT !.noise = FALSE]

safe_json_extract(text) ==
    IF json_loads(text).ok THEN json_loads(text)
    ELSE IF HasBraceSpan(text) THEN json_loads(BraceSpan(text))
    ELSE Raise("JSONDecodeError")

\* What the endpoint does with one request: the client raises (network, auth,
\* rate limit) or returns a text.
TransportFailure == [err |-> TRUE, text |-> PlainText]
Reply(text) == [err |-> FALSE, text |-> text]

\* chat_json: chat_raw, then safe_json_extract; nothing is caught.
chat_json(resp) ==
    IF resp.err THEN Raise("TransportError") ELSE safe_json_extract(resp.text)

(* --------------------------------------------------------------- pipeline *)

\* int(li.mls_char_limit * 0.9); exact for every integer limit of the slider.
MinChars(limit) == (limit * 9) \div 10

\* isinstance(data.get(k), str) and data.get(k).strip()
Present(d, k) == IsStr(Get(d, k)) /\ Truthy(Strip(Get(d, k)))

\* Mutant: the emptiness test without .strip(), so that a blank counts as present.
MissingKeys_NoStrip(d) ==
    SelectSeq(REQUIRED_KEYS, LAMBDA k : ~(IsStr(Get(d, k)) /\ Truthy(Get(d, k))))

\* missing = [k for k in REQUIRED_KEYS if not (...)]
MissingKeys(d) == SelectSeq(REQUIRED_KEYS, LAMBDA k : ~Present(d, k))

\* Mutant: a merge that only fills keys the original does not hold (setdefault).
MergeDicts_KeepOriginal(original, updates) ==
    [k \in (DOMAIN original) \cup (DOMAIN updates) |->
        IF k \in DOMAIN original THEN original[k] ELSE updates[k]]

\* merge_preserving on two dicts: out = dict(original); out[k] = v for updates.
MergeDicts(original, updates) ==
    [k \in (DOMAIN original) \cup (DOMAIN updates) |->
        IF k \in DOMAIN updates THEN updates[k] ELSE original[k]]

\* merge_preserving(data, partial): `(updates or {}).items()` takes a falsy
\* non-object as {}, and raises AttributeError on a truthy non-object.
merge_preserving(original, updates) ==
    IF updates.kind = "object" THEN Ok(MergeDicts(original, updates.obj))
    ELSE IF updates.kind = "falsy" THEN Ok(original)
    ELSE Raise("AttributeError")

\* (data.get("mls_description") or "").strip(): raises on a truthy non-string.
StripOrEmptyRaises(v) == Truthy(v) /\ ~IsStr(v)
StripOrEmpty(v) == IF Truthy(v) THEN Strip(v) ELSE EmptyStr

\* Mutant: the upper bound taken as exclusive.
WithinBounds_ExclusiveMax(limit, current) ==
    MinChars(limit) <= StrLen(current) /\ StrLen(current) < limit

\* min_chars <= len(current) <= max_chars
WithinBounds(limit, current) ==
    MinChars(limit) <= StrLen(current) /\ StrLen(current) <= limit

\* Mutant: the length test on the untrimmed description.
ensure_length_entry_NoStrip(limit, d) ==
    IF StripOrEmptyRaises(Get(d, "mls_description")) THEN "raise"
    ELSE IF WithinBounds(limit, IF Truthy(Get(d, "mls_description"))
                                THEN Get(d, "mls_description") ELSE EmptyStr)
        THEN "return"
    ELSE "call"

\* What ensure_length does before any call (lines 572-577): "raise" when
\* .strip() is applied to a truthy non-string, "return" when the trimmed
\* description is within bounds, "call" when a revision is requested.
ensure_length_entry(limit, d) ==
    IF StripOrEmptyRaises(Get(d, "mls_description")) THEN "raise"
    ELSE IF WithinBounds(limit, StripOrEmpty(Get(d, "mls_description"))) THEN "return"
    ELSE "call"

\* Mutant: the whole revision object merged into the result, not only its
\* description.
ensure_length_apply_MergeAll(d, revision_json) ==
    IF revision_json.kind # "object" THEN Raise("AttributeError")
    ELSE IF StripOrEmptyRaises(Get(revision_json.obj, "mls_description"))
        THEN Raise("AttributeError")
    ELSE IF Truthy(StripOrEmpty(Get(revision_json.obj, "mls_description")))
        THEN Ok(Put(MergeDicts(d, revision_json.obj), "mls_description",
                    StripOrEmpty(Get(revision_json.obj, "mls_description"))))
    ELSE Ok(d)

\* What ensure_length does with the parsed revision (lines 591-594).
ensure_length_apply(d, revision_json) ==
    IF revision_json.kind # "object" THEN Raise("AttributeError")
    ELSE IF StripOrEmptyRaises(Get(revision_json.obj, "mls_description"))
        THEN Raise("AttributeError")
    ELSE IF Truthy(StripOrEmpty(Get(revision_json.obj, "mls_description")))
        THEN Ok(Put(d, "mls_description", StripOrEmpty(Get(revision_json.obj, "mls_description"))))
    ELSE Ok(d)

(* ----------------------------------------------------------------- inputs *)

\* Marks a key a response does not carry; never stored in a dict.
Absent == [t |-> "absent", pad |-> 0, len |-> 0]

\* Lengths of description texts around both bounds of the band.
MlsLens(limit) ==
    {MinChars(limit) - 50, MinChars(limit) - 1, MinChars(limit),
     MinChars(limit) + 50, limit, limit + 1}

MlsValues(limit) ==
    {NullV, NumV} \cup {Str(p, n) : p \in 0..MaxPad, n \in {0} \cup MlsLens(limit)}

\* Caption, hashtags and script values: a blank and two different texts.
OtherValues == {Str(1, 0), Str(0, 1), Str(0, 2)}

ExtraValues == {Str(0, 1)}

ValuesOf(limit, k) ==
    IF k = "mls_description" THEN MlsValues(limit)
    ELSE IF k = ExtraKey THEN ExtraValues
    ELSE OtherValues

Opt(S) == S \cup {Absent}

\* The dict holding exactly the keys that `choice` does not mark Absent.
MakeDict(choice) ==
    [k \in {x \in DOMAIN choice : choice[x] # Absent} |-> choice[k]]

Choice(m, s, h, v, e) ==
    [k \in Keys |->
        CASE k = "mls_description" -> m
          [] k = "social_caption" -> s
          [] k = "instagram_hashtags" -> h
          [] k = "video_script_60s" -> v
          [] OTHER -> e]

\* Objects a primary response can hold: any subset of the keys, any values.
PrimaryObjects(limit) ==
    {MakeDict(Choice(m, s, h, v, e)) :
        m \in Opt(MlsValues(limit)), s \in Opt(OtherValues), h \in Opt(OtherValues),
        v \in Opt(OtherValues), e \in Opt(ExtraValues)}

\* A second key a single-key response may carry besides the one asked for:
\* a blank or a well-formed value for it.
SideValues(limit, k) ==
    IF k = "mls_description" THEN {Str(1, 0), Str(0, MinChars(limit))}
    ELSE IF k = ExtraKey THEN ExtraValues
    ELSE {Str(1, 0), Str(0, 2)}

\* The value the key asked for has in a response that also carries a second
\* key: none, or a well-formed one.
MainValues(limit, k) ==
    IF k = "mls_description" THEN {Absent, Str(0, limit)} ELSE {Absent, Str(0, 1)}

Single(k, v) == MakeDict([x \in {k} |-> v])

\* Objects a single-key response (repair, revision) can hold: the key asked
\* for with any value or without it, and at most one other key.
SingleKeyObjects(limit, key) ==
    {Single(key, v) : v \in Opt(ValuesOf(limit, key))}
    \cup UNION {{MergeDicts(Single(key, v), Single(k2, v2)) :
                    v \in MainValues(limit, key), v2 \in SideValues(limit, k2)} :
                k2 \in Keys \ {key}}

\* Every outcome of one request whose well-formed replies hold `objects`.
Responses(objects) ==
    {TransportFailure, Reply(PlainText), Reply(BracesText)}
    \cup {Reply(JsonText(n, j)) : n \in BOOLEAN, j \in {JFalsy, JTruthy}}
    \cup {Reply(JsonText(n, JObject(d))) : n \in BOOLEAN, d \in objects}

(* ------------------------------------------------------------------ state *)

VARIABLES
    li,        \* the ListingInput of this run (only mls_char_limit matters here)
    pc,        \* "Start", "Repair", "Length", "Done", "Failed"
    data,      \* the accumulated GenerationResult
    missing,   \* validate_and_repair's list of keys to repair
    idx,       \* position in `missing` of the next repair call
    calls,     \* the model calls issued so far, in order
    result,    \* what the pipeline handed to the rendering code
    error,     \* the exception that ended the run, if any
    lastSaid,  \* per required key: did the latest merged response holding it give it a present value
    revision_json, \* ensure_length's parsed revision, as far as it is read
    call,      \* a helper function invoked on its own: its name and arguments
    ret        \* what that invocation returned

vars == <<li, pc, data, missing, idx, calls, result, error, lastSaid, revision_json,
          call, ret>>

\* No helper function is invoked on its own during a pipeline run.
NoCall == [fn |-> "none"]
NoRet == [done |-> FALSE]

NoResult == [returned |-> FALSE, data |-> EmptyDict]
Returned(d) == [returned |-> TRUE, data |-> d]
NoError == [stage |-> "none", exc |-> "none"]
Error(stage, exc) == [stage |-> stage, exc |-> exc]

Call(kind, key) == [kind |-> kind, key |-> key]

\* What ensure_length reads of its parsed revision: whether chat_json
\* returned, the kind of JSON value, and the value under mls_description.
NoRevision == [returned |-> FALSE, kind |-> "none", mls |-> Absent]
RevisionOf(r) ==
    IF ~r.ok THEN NoRevision
    ELSE [returned |-> TRUE, kind |-> r.val.kind,
          mls |-> IF "mls_description" \in DOMAIN r.val.obj
                  THEN r.val.obj["mls_description"] ELSE Absent]

\* Per required key, whether the latest merged object holding it gave it a
\* present value; `prev` for the keys the object does not hold.
Said(prev, obj) ==
    [k \in RequiredSet |-> IF k \in DOMAIN obj THEN Present(obj, k) ELSE prev[k]]

Init ==
    /\ li \in {[mls_char_limit |-> l] : l \in Limits}
    /\ pc = "Start"
    /\ data = EmptyDict
    /\ missing = <<>>
    /\ idx = 1
    /\ calls = <<>>
    /\ result = NoResult
    /\ error = NoError
    /\ lastSaid = [k \in RequiredSet |-> FALSE]
    /\ revision_json = NoRevision
    /\ call = NoCall
    /\ ret = NoRet

\* Mutant: an except branch without st.stop(), so that the rendering code
\* below it still receives the data accumulated so far.
Fails_NoStop(stage, exc) ==
    /\ pc' = "Failed"
    /\ result' = Returned(data)
    /\ error' = Error(stage, exc)

\* The except branch (lines 726-728): st.exception(e); st.stop().
Fails(stage, exc) ==
    /\ pc' = "Failed"
    /\ result' = NoResult
    /\ error' = Error(stage, exc)

\* data = ensure_length(li, data) up to its model call, or to its return.
EnterEnsureLength(d) ==
    LET e == ensure_length_entry(li.mls_char_limit, d) IN
    /\ data' = d
    /\ IF e = "raise" THEN Fails("ensure_length", "AttributeError")
       ELSE IF e = "return" THEN pc' = "Done" /\ result' = Returned(d) /\ error' = NoError
       ELSE pc' = "Length" /\ result' = NoResult /\ error' = NoError

\* Lines 719-725: the primary call, then validate_and_repair up to its first
\* repair call (or, with nothing missing, ensure_length up to its call).
PrimaryCall ==
    /\ pc = "Start"
    /\ calls' = Append(calls, Call("primary", "-"))
    /\ UNCHANGED <<li, revision_json, call, ret>>
    /\ \E resp \in Responses(PrimaryObjects(li.mls_char_limit)) :
        LET r == chat_json(resp) IN
        IF ~r.ok
        THEN Fails("primary", r.exc) /\ UNCHANGED <<data, missing, idx, lastSaid>>
        ELSE IF r.val.kind # "object"
        THEN \* data.get on a non-dict
             Fails("validate_and_repair", "AttributeError")
             /\ UNCHANGED <<data, missing, idx, lastSaid>>
        ELSE /\ missing' = MissingKeys(r.val.obj)
             /\ idx' = 1
             /\ lastSaid' = Said(lastSaid, r.val.obj)
             /\ IF MissingKeys(r.val.obj) = <<>>
                THEN EnterEnsureLength(r.val.obj)
                ELSE /\ data' = r.val.obj
                     /\ pc' = "Repair" /\ result' = NoResult /\ error' = NoError

\* One pass of the loop at lines 527-567: the repair call for missing[idx] and
\* the merge; after the last key, ensure_length up to its call.
RepairCall ==
    /\ pc = "Repair"
    /\ calls' = Append(calls, Call("repair", missing[idx]))
    /\ UNCHANGED <<li, missing, revision_json, call, ret>>
    /\ \E resp \in Responses(SingleKeyObjects(li.mls_char_limit, missing[idx])) :
        LET r == chat_json(resp) IN
        IF ~r.ok
        THEN Fails("repair", r.exc) /\ UNCHANGED <<data, idx, lastSaid>>
        ELSE LET m == merge_preserving(data, r.val) IN
             IF ~m.ok
             THEN Fails("merge_preserving", m.exc) /\ UNCHANGED <<data, idx, lastSaid>>
             ELSE /\ idx' = idx + 1
                  /\ lastSaid' = Said(lastSaid, r.val.obj)
                  /\ IF idx < Len(missing)
                     THEN /\ data' = m.val
                          /\ pc' = "Repair" /\ result' = NoResult /\ error' = NoError
                     ELSE EnterEnsureLength(m.val)

\* Mutant: the length test run again on the revised text, asking for another
\* revision while it is out of range.
ReturnRevised_Recheck(d) == EnterEnsureLength(d)

\* Line 594: ensure_length returns after its one revision, whatever its length.
ReturnRevised(d) ==
    /\ data' = d
    /\ pc' = "Done" /\ result' = Returned(d) /\ error' = NoError

\* Lines 590-594: the single revision call and what is done with its reply.
LengthCall ==
    /\ pc = "Length"
    /\ calls' = Append(calls, Call("revision", "mls_description"))
    /\ UNCHANGED <<li, missing, idx, call, ret>>
    /\ \E resp \in Responses(SingleKeyObjects(li.mls_char_limit, "mls_description")) :
        LET r == chat_json(resp) IN
        (revision_json' = RevisionOf(r)) /\
        IF ~r.ok
        THEN Fails("revision", r.exc) /\ UNCHANGED <<data, lastSaid>>
        ELSE LET a == ensure_length_apply(data, r.val) IN
             IF ~a.ok
             THEN Fails("ensure_length", a.exc) /\ UNCHANGED <<data, lastSaid>>
             ELSE /\ lastSaid' = lastSaid
                  /\ ReturnRevised(a.val)

Next == PrimaryCall \/ RepairCall \/ LengthCall

Spec == Init /\ [][Next]_vars

(* ------------------------------------------------ strings of the builders *)

\* A Python string as the keyword and bullet builders see it: its text with
\* whitespace runs collapsed and leading/trailing ",; " removed, once with its
\* letter case (cased) and once lowercased (text); whether it has whitespace
\* runs other than single spaces inside (inner); whether it has leading or
\* trailing whitespace (edge); whether it has leading or trailing commas or
\* semicolons (punct). Two strings are equal iff their records are.
S(cased, text, inner, edge, punct) ==
    [cased |-> cased, text |-> text, inner |-> inner, edge |-> edge, punct |-> punct]

\* A string written with upper-case letters and nothing else to normalize.
L(cased, text) == S(cased, text, FALSE, FALSE, FALSE)

\* A string that is already lowercase, single-spaced and trimmed.
V(text) == L(text, text)

\* bool(s): s is not the empty string.
NonEmpty(s) == s.text # "" \/ s.inner \/ s.edge \/ s.punct

\* s.strip()
str_strip(s) == [s EXCEPT !.edge = FALSE]

\* s.lower()
str_lower(s) == [s EXCEPT !.cased = s.text]

\* " ".join(s.split())
CollapseWhitespace(s) == [s EXCEPT !.inner = FALSE, !.edge = FALSE]

\* s.strip(",; ") applied to a string without leading or trailing whitespace
\* other than spaces.
StripPunctuation(s) == [s EXCEPT !.punct = FALSE, !.edge = FALSE]

\* Line 395: t2 = " ".join(str(t).split()).strip(",; ").lower()
NormalizeToken(t) == str_lower(StripPunctuation(CollapseWhitespace(t)))

\* Optional numbers: None, or a number. beds and baths are floats counted in
\* halves (Streamlit's step=0.5), the others are ints.
None == [isNone |-> TRUE]
Some(n) == [isNone |-> FALSE, n |-> n]

\* int(x) of a float counted in halves, and f"{x}" of it.
IntOfHalves(h) == h \div 2
FloatText(h) == ToString(h \div 2) \o (IF h % 2 = 0 THEN ".0" ELSE ".5")

(* --------------------------------------------------------------- taxonomy *)

\* feature_taxonomy(): groups in order, each a list of (label, variants).
feature_taxonomy == <<
  [group |-> "Exterior & Lot", items |-> <<
    <<L("Corner lot", "corner lot"), <<V("corner lot")>>>>,
    <<L("Cul-de-sac", "cul-de-sac"), <<V("cul-de-sac")>>>>,
    <<L("Large backyard", "large backyard"), <<V("large backyard"), V("spacious yard"), V("big yard")>>>>,
    <<L("Usable yard", "usable yard"), <<V("usable yard"), V("flat yard")>>>>,
    <<L("Drought-tolerant landscaping", "drought-tolerant landscaping"), <<V("drought tolerant"), V("low maintenance landscaping")>>>>,
    <<L("Mature trees", "mature trees"), <<V("mature trees")>>>>,
    <<L("Fruit trees", "fruit trees"), <<V("fruit trees")>>>>,
    <<L("Garden beds", "garden beds"), <<V("garden beds")>>>>,
    <<L("RV/Boat parking", "rv/boat parking"), <<V("rv parking"), V("boat parking")>>>>,
    <<L("Gated driveway", "gated driveway"), <<V("gated driveway")>>>>,
    <<L("Circular driveway", "circular driveway"), <<V("circular driveway")>>>>,
    <<L("Motor court", "motor court"), <<V("motor court")>>>>,
    <<L("Privacy fencing", "privacy fencing"), <<V("privacy fencing")>>>>,
    <<L("Privacy hedges", "privacy hedges"), <<V("privacy hedges")>>>>,
    <<L("1-car garage", "1-car garage"), <<V("1-car garage"), V("single car garage")>>>>,
    <<L("2-car garage", "2-car garage"), <<V("2-car garage"), V("two car garage")>>>>,
    <<L("3-car garage", "3-car garage"), <<V("3-car garage"), V("three car garage")>>>>,
    <<L("4-car garage", "4-car garage"), <<V("4-car garage"), V("four car garage")>>>>,
    <<L("5-car+ garage", "5-car+ garage"), <<V("5-car garage"), V("five car garage")>>>>,
    <<L("Tandem garage", "tandem garage"), <<V("tandem garage")>>>>,
    <<L("Detached garage", "detached garage"), <<V("detached garage")>>>>,
    <<L("Workshop area", "workshop area"), <<V("garage workshop"), V("workbench")>>>>,
    <<L("Built-in garage storage", "built-in garage storage"), <<V("garage storage"), V("built-in garage cabinets")>>>>,
    <<L("EV charger (Level 2)", "ev charger (level 2)"), <<V("ev charger"), V("240v outlet")>>>>
  >>],
  [group |-> "Outdoor Living", items |-> <<
    <<L("Covered patio", "covered patio"), <<V("covered patio")>>>>,
    <<L("Pergola", "pergola"), <<V("pergola")>>>>,
    <<L("Gazebo", "gazebo"), <<V("gazebo")>>>>,
    <<L("Retractable awning", "retractable awning"), <<V("retractable awning")>>>>,
    <<L("Deck (wood)", "deck (wood)"), <<V("wood deck")>>>>,
    <<L("Deck (composite)", "deck (composite)"), <<V("composite deck")>>>>,
    <<L("Rooftop deck", "rooftop deck"), <<V("rooftop deck")>>>>,
    <<L("Wraparound porch", "wraparound porch"), <<V("wraparound porch")>>>>,
    <<L("Balcony", "balcony"), <<V("balcony")>>>>,
    <<L("Built-in BBQ", "built-in bbq"), <<V("built-in bbq")>>>>,
    <<L("Outdoor kitchen (sink/fridge)", "outdoor kitchen (sink/fridge)"), <<V("outdoor kitchen"), V("outdoor sink"), V("outdoor fridge")>>>>,
    <<L("Bar seating", "bar seating"), <<V("bar seating")>>>>,
    <<L("Fire pit", "fire pit"), <<V("fire pit")>>>>,
    <<L("Outdoor fireplace", "outdoor fireplace"), <<V("outdoor fireplace")>>>>,
    <<L("Water feature (fountain/pond/waterfall)", "water feature (fountain/pond/waterfall)"), <<V("water feature"), V("fountain"), V("pond"), V("waterfall")>>>>,
    <<L("Putting green", "putting green"), <<V("putting green")>>>>,
    <<L("Sport court", "sport court"), <<V("sport court")>>>>,
    <<L("Pickleball", "pickleball"), <<V("pickleball")>>>>,
    <<L("Play structure", "play structure"), <<V("play structure")>>>>,
    <<L("Dog run", "dog run"), <<V("dog run")>>>>,
    <<L("Pool (in-ground)", "pool (in-ground)"), <<V("pool"), V("in-ground pool")>>>>,
    <<L("Pool (saltwater)", "pool (saltwater)"), <<V("saltwater pool")>>>>,
    <<L("Pool (heated)", "pool (heated)"), <<V("heated pool")>>>>,
    <<L("Lap pool", "lap pool"), <<V("lap pool")>>>>,
    <<L("Spa/Hot tub", "spa/hot tub"), <<V("spa"), V("hot tub")>>>>,
    <<L("Sauna (dry)", "sauna (dry)"), <<V("dry sauna")>>>>,
    <<L("Sauna (infrared)", "sauna (infrared)"), <<V("infrared sauna")>>>>
  >>],
  [group |-> "Views & Orientation", items |-> <<
    <<L("Ocean view", "ocean view"), <<V("ocean view")>>>>,
    <<L("Bay view", "bay view"), <<V("bay view")>>>>,
    <<L("City lights view", "city lights view"), <<V("city lights view")>>>>,
    <<L("Mountain view", "mountain view"), <<V("mountain view")>>>>,
    <<L("Canyon/Greenbelt view", "canyon/greenbelt view"), <<V("canyon view"), V("greenbelt view")>>>>,
    <<L("Golf course view", "golf course view"), <<V("golf course view")>>>>,
    <<L("Park view", "park view"), <<V("park view")>>>>,
    <<L("East-facing (morning light)", "east-facing (morning light)"), <<V("east-facing")>>>>,
    <<L("West-facing (sunsets)", "west-facing (sunsets)"), <<V("west-facing")>>>>,
    <<L("South-facing yard", "south-facing yard"), <<V("south-facing yard")>>>>,
    <<L("Picture windows", "picture windows"), <<V("picture windows")>>>>,
    <<L("Bay window", "bay window"), <<V("bay window")>>>>
  >>],
  [group |-> "Property Type & Layout", items |-> <<
    <<L("Single-story (step-free)", "single-story (step-free)"), <<V("single story"), V("single level"), V("step-free")>>>>,
    <<L("Two-story", "two-story"), <<V("two story")>>>>,
    <<L("Split-level", "split-level"), <<V("split level")>>>>,
    <<L("Open-concept", "open-concept"), <<V("open concept"), V("open floor plan")>>>>,
    <<L("Great room", "great room"), <<V("great room")>>>>,
    <<L("Vaulted ceilings", "vaulted ceilings"), <<V("vaulted ceilings")>>>>,
    <<L("Double-height ceilings", "double-height ceilings"), <<V("double-height ceilings")>>>>,
    <<L("Skylights", "skylights"), <<V("skylights")>>>>,
    <<L("Formal dining", "formal dining"), <<V("formal dining")>>>>,
    <<L("Den/Home office", "den/home office"), <<V("den"), V("home office")>>>>,
    <<L("Loft", "loft"), <<V("loft")>>>>,
    <<L("Media room/Home theater", "media room/home theater"), <<V("media room"), V("home theater")>>>>,
    <<L("Game room", "game room"), <<V("game room")>>>>,
    <<L("Gym", "gym"), <<V("home gym")>>>>,
    <<L("Mudroom", "mudroom"), <<V("mudroom")>>>>,
    <<L("ADU (permitted)", "adu (permitted)"), <<V("adu")>>>>,
    <<L("Guest house/Casita (permitted)", "guest house/casita (permitted)"), <<V("guest house"), V("casita")>>>>,
    <<L("Primary suite on main", "primary suite on main"), <<V("primary on main")>>>>,
    <<L("Dual primary suites", "dual primary suites"), <<V("dual primary")>>>>,
    <<L("Jack-and-Jill bath", "jack-and-jill bath"), <<V("jack and jill")>>>>,
    <<L("En-suite secondaries", "en-suite secondaries"), <<V("en-suite bedrooms")>>>>,
    <<L("Built-ins", "built-ins"), <<V("built-ins")>>>>,
    <<L("Window seats", "window seats"), <<V("window seats")>>>>,
    <<L("Wainscoting/Trim/Crown", "wainscoting/trim/crown"), <<V("wainscoting"), V("crown molding"), V("trim work")>>>>,
    <<L("Recessed lighting", "recessed lighting"), <<V("recessed lighting")>>>>,
    <<L("Statement lighting", "statement lighting"), <<V("statement lighting")>>>>,
    <<L("Fireplace(s)", "fireplace(s)"), <<V("fireplace")>>>>
  >>],
  [group |-> "Kitchen", items |-> <<
    <<L("Newly updated kitchen", "newly updated kitchen"), <<V("updated kitchen"), V("renovated kitchen")>>>>,
    <<L("Quartz countertops", "quartz countertops"), <<V("quartz countertops")>>>>,
    <<L("Granite countertops", "granite countertops"), <<V("granite countertops")>>>>,
    <<L("Quartzite countertops", "quartzite countertops"), <<V("quartzite")>>>>,
    <<L("Marble countertops", "marble countertops"), <<V("marble")>>>>,
    <<L("Butcher block counters", "butcher block counters"), <<V("butcher block")>>>>,
    <<L("Soft-close cabinets", "soft-close cabinets"), <<V("soft close cabinets")>>>>,
    <<L("Walk-in pantry", "walk-in pantry"), <<V("walk-in pantry")>>>>,
    <<L("Glass uppers", "glass uppers"), <<V("glass uppers")>>>>,
    <<L("Custom millwork", "custom millwork"), <<V("custom cabinets")>>>>,
    <<L("Island with seating", "island with seating"), <<V("kitchen island with seating")>>>>,
    <<L("Waterfall edge", "waterfall edge"), <<V("waterfall island")>>>>,
    <<L("Prep sink", "prep sink"), <<V("prep sink")>>>>,
    <<L("Stainless appliances", "stainless appliances"), <<V("stainless steel appliances")>>>>,
    <<L("Panel-ready/built-in fridge", "panel-ready/built-in fridge"), <<V("panel ready appliances"), V("built-in fridge")>>>>,
    <<L("Gas range", "gas range"), <<V("gas range")>>>>,
    <<L("Professional range (36\")", "professional range (36\")"), <<V("36-inch range"), V("professional range")>>>>,
    <<L("Professional range (48\")", "professional range (48\")"), <<V("48-inch range"), V("professional range")>>>>,
    <<L("Double oven", "double oven"), <<V("double oven")>>>>,
    <<L("Convection/steam oven", "convection/steam oven"), <<V("convection oven"), V("steam oven")>>>>,
    <<L("Pot filler", "pot filler"), <<V("pot filler")>>>>,
    <<L("Vented hood", "vented hood"), <<V("vented hood")>>>>,
    <<L("Farmhouse sink", "farmhouse sink"), <<V("farmhouse sink")>>>>,
    <<L("Touch faucet", "touch faucet"), <<V("touch faucet")>>>>,
    <<L("Water filtration/RO", "water filtration/ro"), <<V("water filtration"), V("reverse osmosis")>>>>,
    <<L("Beverage center/coffee bar", "beverage center/coffee bar"), <<V("beverage center"), V("coffee bar")>>>>,
    <<L("Wine fridge", "wine fridge"), <<V("wine fridge")>>>>,
    <<L("Microwave drawer", "microwave drawer"), <<V("microwave drawer")>>>>,
    <<L("Designer backsplash", "designer backsplash"), <<V("designer backsplash")>>>>
  >>],
  [group |-> "Bathrooms", items |-> <<
    <<L("Double vanity", "double vanity"), <<V("double vanity")>>>>,
    <<L("Soaking tub", "soaking tub"), <<V("soaking tub")>>>>,
    <<L("Separate shower", "separate shower"), <<V("separate shower")>>>>,
    <<L("Walk-in/curbless shower", "walk-in/curbless shower"), <<V("walk-in shower"), V("curbless shower")>>>>,
    <<L("Rain shower", "rain shower"), <<V("rain shower")>>>>,
    <<L("Body sprays", "body sprays"), <<V("body sprays")>>>>,
    <<L("Frameless glass", "frameless glass"), <<V("frameless glass")>>>>,
    <<L("Heated floors", "heated floors"), <<V("heated floors")>>>>,
    <<L("Towel warmer", "towel warmer"), <<V("towel warmer")>>>>,
    <<L("Bidet/bidet seat", "bidet/bidet seat"), <<V("bidet"), V("bidet seat")>>>>,
    <<L("Smart mirror", "smart mirror"), <<V("smart mirror"), V("backlit mirror")>>>>,
    <<L("Smart lighting (bath)", "smart lighting (bath)"), <<V("smart bath lighting")>>>>,
    <<L("Linen closet", "linen closet"), <<V("linen closet")>>>>,
    <<L("Updated powder room", "updated powder room"), <<V("updated powder room")>>>>,
    <<L("Skylight in bath", "skylight in bath"), <<V("bath skylight")>>>>
  >>],
  [group |-> "Bedrooms & Storage", items |-> <<
    <<L("Primary walk-in closet", "primary walk-in closet"), <<V("walk-in closet")>>>>,
    <<L("Custom closet system", "custom closet system"), <<V("custom closets")>>>>,
    <<L("Primary balcony", "primary balcony"), <<V("primary balcony")>>>>,
    <<L("Primary retreat/sitting area", "primary retreat/sitting area"), <<V("primary retreat")>>>>,
    <<L("Fireplace in primary", "fireplace in primary"), <<V("primary fireplace")>>>>,
    <<L("Large secondary bedrooms", "large secondary bedrooms"), <<V("large secondary bedrooms")>>>>,
    <<L("Guest suite", "guest suite"), <<V("guest suite")>>>>,
    <<L("Nursery", "nursery"), <<V("nursery")>>>>,
    <<L("Coat closet", "coat closet"), <<V("coat closet")>>>>,
    <<L("Linen storage", "linen storage"), <<V("linen storage")>>>>,
    <<L("Attic storage", "attic storage"), <<V("attic storage")>>>>,
    <<L("Shed/Outbuilding", "shed/outbuilding"), <<V("storage shed"), V("outbuilding")>>>>,
    <<L("Overhead garage racks", "overhead garage racks"), <<V("garage racks")>>>>
  >>],
  [group |-> "Laundry & Utility", items |-> <<
    <<L("Inside laundry room", "inside laundry room"), <<V("laundry room")>>>>,
    <<L("Garage laundry", "garage laundry"), <<V("garage laundry")>>>>,
    <<L("Closet laundry", "closet laundry"), <<V("closet laundry")>>>>,
    <<L("Laundry sink", "laundry sink"), <<V("laundry sink")>>>>,
    <<L("Folding counter", "folding counter"), <<V("folding counter")>>>>,
    <<L("Laundry cabinetry", "laundry cabinetry"), <<V("laundry cabinets")>>>>,
    <<L("Hanging rack", "hanging rack"), <<V("hanging rack")>>>>,
    <<L("Gas hookups", "gas hookups"), <<V("gas hookups")>>>>,
    <<L("Electric hookups (220V)", "electric hookups (220v)"), <<V("electric hookups"), V("220v laundry")>>>>
  >>],
  [group |-> "Flooring & Surfaces", items |-> <<
    <<L("Hardwood/Wood floors", "hardwood/wood floors"), <<V("hardwood floors"), V("wood floors")>>>>,
    <<L("Luxury vinyl plank (LVP)", "luxury vinyl plank (lvp)"), <<V("lvp flooring")>>>>,
    <<L("Tile (porcelain/ceramic)", "tile (porcelain/ceramic)"), <<V("tile floors")>>>>,
    <<L("Stone (travertine/marble/slate)", "stone (travertine/marble/slate)"), <<V("stone floors"), V("travertine"), V("marble"), V("slate")>>>>,
    <<L("Polished concrete", "polished concrete"), <<V("polished concrete")>>>>,
    <<L("New carpet", "new carpet"), <<V("new carpet")>>>>,
    <<L("Hypoallergenic flooring", "hypoallergenic flooring"), <<V("hypoallergenic flooring")>>>>
  >>],
  [group |-> "Systems, Energy & Smart Home", items |-> <<
    <<L("Solar (owned)", "solar (owned)"), <<V("owned solar")>>>>,
    <<L("Solar (leased)", "solar (leased)"), <<V("leased solar")>>>>,
    <<L("Battery backup", "battery backup"), <<V("battery backup")>>>>,
    <<L("Generator transfer switch", "generator transfer switch"), <<V("generator transfer switch")>>>>,
    <<L("Dual-pane windows", "dual-pane windows"), <<V("dual pane windows")>>>>,
    <<L("Energy-efficient glazing", "energy-efficient glazing"), <<V("energy efficient windows")>>>>,
    <<L("Upgraded insulation (attic/crawl)", "upgraded insulation (attic/crawl)"), <<V("attic insulation"), V("crawlspace insulation")>>>>,
    <<L("Tankless water heater", "tankless water heater"), <<V("tankless water heater")>>>>,
    <<L("Newer HVAC", "newer hvac"), <<V("newer hvac")>>>>,
    <<L("Multi-zone HVAC", "multi-zone hvac"), <<V("multi-zone hvac")>>>>,
    <<L("Whole-house fan", "whole-house fan"), <<V("whole house fan")>>>>,
    <<L("Smart thermostat", "smart thermostat"), <<V("smart thermostat")>>>>,
    <<L("Video doorbell", "video doorbell"), <<V("video doorbell")>>>>,
    <<L("Security cameras", "security cameras"), <<V("security cameras")>>>>,
    <<L("Smart locks", "smart locks"), <<V("smart locks")>>>>,
    <<L("Smart lighting", "smart lighting"), <<V("smart lighting")>>>>,
    <<L("Wired Ethernet (CAT6)", "wired ethernet (cat6)"), <<V("cat6 wiring"), V("ethernet wiring")>>>>,
    <<L("Speaker pre-wire", "speaker pre-wire"), <<V("speaker prewire")>>>>,
    <<L("Security system", "security system"), <<V("security system")>>>>,
    <<L("Interior fire sprinklers", "interior fire sprinklers"), <<V("fire sprinklers")>>>>,
    <<L("Smart smoke detectors", "smart smoke detectors"), <<V("smart smoke detectors")>>>>,
    <<L("Smart CO detectors", "smart co detectors"), <<V("smart co detectors")>>>>,
    <<L("Fresh-air system/ERV", "fresh-air system/erv"), <<V("erv"), V("fresh air system")>>>>,
    <<L("Air purifier", "air purifier"), <<V("air purifier")>>>>,
    <<L("Low-VOC finishes", "low-voc finishes"), <<V("low voc finishes")>>>>
  >>],
  [group |-> "Community & HOA", items |-> <<
    <<L("Gated community", "gated community"), <<V("gated community")>>>>,
    <<L("Guard-gated community", "guard-gated community"), <<V("guard gated")>>>>,
    <<L("Community pool", "community pool"), <<V("community pool")>>>>,
    <<L("Community spa", "community spa"), <<V("community spa")>>>>,
    <<L("Clubhouse", "clubhouse"), <<V("clubhouse")>>>>,
    <<L("Gym/Fitness center", "gym/fitness center"), <<V("fitness center")>>>>,
    <<L("Pickleball courts", "pickleball courts"), <<V("pickleball")>>>>,
    <<L("Tennis courts", "tennis courts"), <<V("tennis courts")>>>>,
    <<L("Playground", "playground"), <<V("playground")>>>>,
    <<L("Dog park", "dog park"), <<V("dog park")>>>>,
    <<L("Walking trails", "walking trails"), <<V("walking trails")>>>>,
    <<L("Community garden", "community garden"), <<V("community garden")>>>>,
    <<L("Package lockers", "package lockers"), <<V("package lockers")>>>>,
    <<L("Community RV lot", "community rv lot"), <<V("community rv lot")>>>>
  >>],
  [group |-> "Location & Access", items |-> <<
    <<L("Near parks", "near parks"), <<V("near parks")>>>>,
    <<L("Near trails", "near trails"), <<V("near trails")>>>>,
    <<L("Near shopping", "near shopping"), <<V("near shopping")>>>>,
    <<L("Near dining", "near dining"), <<V("near dining")>>>>,
    <<L("Near hospitals/medical", "near hospitals/medical"), <<V("near hospitals"), V("near medical")>>>>,
    <<L("Easy freeway access", "easy freeway access"), <<V("easy freeway access")>>>>,
    <<L("Near I-5", "near i-5"), <<V("near i-5")>>>>,
    <<L("Near I-15", "near i-15"), <<V("near i-15")>>>>,
    <<L("Near local schools (proximity)", "near local schools (proximity)"), <<V("near local schools")>>>>,
    <<L("Transit nearby", "transit nearby"), <<V("near transit")>>>>
  >>],
  [group |-> "Specialty / Market Segments", items |-> <<
    <<L("Accessibility: zero-step entry", "accessibility: zero-step entry"), <<V("zero step entry"), V("step-free")>>>>,
    <<L("Accessibility: wide halls/doors", "accessibility: wide halls/doors"), <<V("wide hallways"), V("wide doors")>>>>,
    <<L("Roll-in/curbless shower", "roll-in/curbless shower"), <<V("roll-in shower"), V("curbless shower")>>>>,
    <<L("New construction/recent build", "new construction/recent build"), <<V("new construction"), V("recent build")>>>>,
    <<L("Craftsman style", "craftsman style"), <<V("craftsman")>>>>,
    <<L("Spanish/Mediterranean style", "spanish/mediterranean style"), <<V("spanish"), V("mediterranean")>>>>,
    <<L("Mid-Century style", "mid-century style"), <<V("mid-century")>>>>,
    <<L("Modern/Contemporary", "modern/contemporary"), <<V("modern"), V("contemporary")>>>>,
    <<L("Farmhouse/Tudor", "farmhouse/tudor"), <<V("farmhouse"), V("tudor")>>>>,
    <<L("Income/ADU/lock-off", "income/adu/lock-off"), <<V("adu potential"), V("separate entrance"), V("lock off")>>>>,
    <<L("Well", "well"), <<V("well")>>>>,
    <<L("Septic (updated)", "septic (updated)"), <<V("septic updated")>>>>,
    <<L("Workshop/Barn/Studio", "workshop/barn/studio"), <<V("workshop"), V("barn"), V("artist studio")>>>>
  >>]
>>

RangeOf(seq) == {seq[i] : i \in 1..Len(seq)}

\* The concatenation of a sequence of sequences, halving it so that long
\* lists are not walked one element per level.
RECURSIVE Flatten(_)
Flatten(seqs) ==
    IF Len(seqs) = 0 THEN <<>>
    ELSE IF Len(seqs) = 1 THEN seqs[1]
    ELSE Flatten(SubSeq(seqs, 1, Len(seqs) \div 2))
            \o Flatten(SubSeq(seqs, Len(seqs) \div 2 + 1, Len(seqs)))

\* All (label, variants) items of the taxonomy, group after group.
TaxonomyItems == Flatten([g \in 1..Len(feature_taxonomy) |-> feature_taxonomy[g].items])

\* Lines 366-369 and 372: label_to_variants.get(label, []). A label occurring twice would
\* keep its last variants, as a dict comprehension does.
label_to_variants_get(label) ==
    LET at == {i \in 1..Len(TaxonomyItems) : TaxonomyItems[i][1] = label} IN
    IF at # {} THEN TaxonomyItems[CHOOSE i \in at : \A j \in at : j <= i][2] ELSE <<>>

(* ------------------------------------------------------- keyword builder *)

\* Mutant: a label that is not in the taxonomy adds nothing.
LabelTokens_DropUnknown(label) == label_to_variants_get(label)

\* Lines 372-376: what one selected label adds to tokens.
LabelTokens(label) ==
    LET variants == label_to_variants_get(label) IN
    IF variants # <<>> THEN variants ELSE <<label>>

\* Lines 370-376: the loop over selected.items() and over each group's labels.
\* selected is the dict in its iteration order: a sequence of (group, labels).
SelectedLabels(selected) == Flatten([g \in 1..Len(selected) |-> selected[g].labels])
SelectionTokens(selected) ==
    LET labels == SelectedLabels(selected) IN
    Flatten([i \in 1..Len(labels) |-> LabelTokens(labels[i])])

\* Mutant: the bathrooms token made only for a non-zero number, as the
\* bedrooms token is.
BathsToken_Truthy(baths) ==
    IF ~baths.isNone /\ baths.n # 0
    THEN <<V(FloatText(baths.n) \o " bathrooms")>> ELSE <<>>

\* Lines 378-389: the numeric and property-type tokens.
BedsToken(beds) ==
    IF ~beds.isNone /\ beds.n # 0
    THEN <<V(ToString(IntOfHalves(beds.n)) \o " bedrooms")>> ELSE <<>>
BathsToken(baths) ==
    IF ~baths.isNone THEN <<V(FloatText(baths.n) \o " bathrooms")>> ELSE <<>>
SqftToken(sqft) ==
    IF ~sqft.isNone /\ sqft.n # 0 THEN <<V(ToString(sqft.n) \o " sqft")>> ELSE <<>>
LotToken(lot_size) ==
    IF ~lot_size.isNone /\ lot_size.n # 0
    THEN <<V(ToString(lot_size.n) \o " sf lot")>> ELSE <<>>
YearToken(year_built) ==
    IF ~year_built.isNone /\ year_built.n # 0
    THEN <<V("built " \o ToString(year_built.n))>> ELSE <<>>
TypeToken(property_type) ==
    IF NonEmpty(property_type) THEN <<str_lower(property_type)>> ELSE <<>>

\* Line 391: [k.strip() for k in extra_keywords if k.strip()]
StrippedNonEmpty(ks) ==
    LET kept == SelectSeq(ks, LAMBDA k : NonEmpty(str_strip(k))) IN
    [i \in 1..Len(kept) |-> str_strip(kept[i])]

\* Lines 364-391: tokens before cleaning.
Tokens(a) ==
    SelectionTokens(a.selected)
        \o BedsToken(a.beds) \o BathsToken(a.baths) \o SqftToken(a.sqft)
        \o LotToken(a.lot_size) \o YearToken(a.year_built) \o TypeToken(a.property_type)
        \o StrippedNonEmpty(a.extra_keywords)

\* Mutant: a token compared and kept as it is written, without normalizing it.
CleanStep_Raw(t, seen, cleaned) ==
    IF NonEmpty(t) /\ t \notin seen THEN Append(cleaned, t) ELSE cleaned

\* Lines 395-399: one round of the cleaning loop; what cleaned is after it.
CleanStep(t, seen, cleaned) ==
    LET t2 == NormalizeToken(t) IN
    IF NonEmpty(t2) /\ t2 \notin seen THEN Append(cleaned, t2) ELSE cleaned

\* Lines 393-399: the cleaning loop over tokens[lo..hi], with seen and cleaned
\* as they stand before it; the rounds are taken in order, first half then
\* second half, seen growing by what each round appends.
RECURSIVE Clean(_, _, _, _, _)
Clean(tokens, lo, hi, seen, cleaned) ==
    IF lo > hi THEN cleaned
    ELSE IF lo = hi THEN CleanStep(tokens[lo], seen, cleaned)
    ELSE LET mid == (lo + hi) \div 2
             left == Clean(tokens, lo, mid, seen, cleaned)
         IN Clean(tokens, mid + 1, hi, seen \cup RangeOf(left), left)

\* Line 401: the size of the slice cleaned[:60].
KeywordCap == 60

\* Mutant: the whole sequence instead of its first n entries.
Prefix_Whole(seq, n) == seq

\* seq[:n]
Prefix(seq, n) == SubSeq(seq, 1, IF Len(seq) < n THEN Len(seq) ELSE n)

\* Lines 354-401. a holds the eight arguments.
build_keywords_from_selections(a) ==
    LET tokens == Tokens(a) IN Prefix(Clean(tokens, 1, Len(tokens), {}, <<>>), KeywordCap)

(* -------------------------------------------------------- bullets builder *)

\* Line 414: the size of the slice lines[:30].
BulletCap == 30

\* Line 408: the line f"- {group}: " + ", ".join(labels).
GroupBullet(group, labels) == [kind |-> "group", group |-> group, labels |-> labels]

\* Line 413: the line f"- {val}".
CustomBullet(val) == [kind |-> "custom", val |-> val]

\* Lines 405-409: one line per group that has labels.
GroupBullets(selected) ==
    LET kept == SelectSeq(selected, LAMBDA g : g.labels # <<>>) IN
    [i \in 1..Len(kept) |-> GroupBullet(kept[i].group, kept[i].labels)]

\* Lines 410-413: one line per custom line that is not blank once its
\* whitespace is collapsed.
CustomBullets(custom_lines) ==
    LET kept == SelectSeq(custom_lines, LAMBDA raw : NonEmpty(CollapseWhitespace(raw))) IN
    [i \in 1..Len(kept) |-> CustomBullet(CollapseWhitespace(kept[i]))]

\* Lines 403-414. The returned string "\n".join(lines[:30]) is held as the
\* sequence of its lines; group names, labels and collapsed custom lines hold
\* no line break.
build_upgrades_bullets(selected, custom_lines) ==
    Prefix(GroupBullets(selected) \o CustomBullets(custom_lines), BulletCap)

(* ------------------------------------------------------------ submission *)

\* Line 680: re.split(r"[,\n;]+", extra_kw_raw) is given as its pieces;
\* extra_keywords = [k.strip() for k in pieces if k.strip()].
extra_keywords_of(pieces) == StrippedNonEmpty(pieces)

\* Lines 695-697: int(x) if x else None, of an int from a number input.
IntOrNone(x) == IF x.n # 0 THEN Some(x.n) ELSE None

\* Line 702: [k.lower() for k in extra_keywords]
LowerAll(ks) == [i \in 1..Len(ks) |-> str_lower(ks[i])]

\* Lines 691-702: auto_keywords as handed to ListingInput.
auto_keywords(form) ==
    build_keywords_from_selections(
        [selected |-> form.selected, beds |-> form.beds, baths |-> form.baths,
         sqft |-> IntOrNone(form.sqft), lot_size |-> IntOrNone(form.lot_size),
         year_built |-> IntOrNone(form.year_built),
         property_type |-> form.property_type, extra_keywords |-> <<>>])
    \o LowerAll(extra_keywords_of(form.extra_keywords))

(* ------------------------------------------------- response text as chars *)

\* A text as its characters, over an alphabet on which JSON is decided
\* exactly: a document is spaces, then a number made of the digit 1 or an
\* empty object with spaces between its braces, then spaces.
Alphabet == {"{", "}", "1", "x", " "}

RECURSIVE LStrip(_)
LStrip(s) == IF s # <<>> /\ Head(s) = " " THEN LStrip(Tail(s)) ELSE s

RECURSIVE RStrip(_)
RStrip(s) ==
    IF s # <<>> /\ s[Len(s)] = " " THEN RStrip(SubSeq(s, 1, Len(s) - 1)) ELSE s

\* json.loads(text) on characters.
json_loads_chars(s) ==
    LET b == RStrip(LStrip(s)) IN
    IF b # <<>> /\ \A i \in 1..Len(b) : b[i] = "1" THEN Ok(JTruthy)
    ELSE IF /\ Len(b) >= 2 /\ b[1] = "{" /\ b[Len(b)] = "}"
            /\ \A i \in 2..(Len(b) - 1) : b[i] = " "
         THEN Ok(JObject(EmptyDict))
    ELSE Raise("JSONDecodeError")

\* text.find(c) and text.rfind(c), counted from 1; 0 stands for Python's -1.
Find(s, c) ==
    IF \E i \in 1..Len(s) : s[i] = c
    THEN CHOOSE i \in 1..Len(s) : s[i] = c /\ \A j \in 1..(i - 1) : s[j] # c
    ELSE 0
RFind(s, c) ==
    IF \E i \in 1..Len(s) : s[i] = c
    THEN CHOOSE i \in 1..Len(s) : s[i] = c /\ \A j \in (i + 1)..Len(s) : s[j] # c
    ELSE 0

\* text = text or "": a text is None or characters.
NoText == [isNone |-> TRUE, chars |-> <<>>]
Text(chars) == [isNone |-> FALSE, chars |-> chars]
TextOrEmpty(text) == IF text.isNone THEN <<>> ELSE text.chars

\* Mutant: the span taken up to the first '}' instead of the last.
safe_json_extract_chars_FirstClose(text) ==
    LET s == TextOrEmpty(text) IN
    IF json_loads_chars(s).ok THEN json_loads_chars(s)
    ELSE IF Find(s, "{") # 0 /\ Find(s, "}") # 0 /\ Find(s, "}") > Find(s, "{")
         THEN json_loads_chars(SubSeq(s, Find(s, "{"), Find(s, "}")))
    ELSE Raise("JSONDecodeError")

\* Lines 477-486 on characters.
safe_json_extract_chars(text) ==
    LET s == TextOrEmpty(text) IN
    IF json_loads_chars(s).ok THEN json_loads_chars(s)
    ELSE IF Find(s, "{") # 0 /\ RFind(s, "}") # 0 /\ RFind(s, "}") > Find(s, "{")
         THEN json_loads_chars(SubSeq(s, Find(s, "{"), RFind(s, "}")))
    ELSE Raise("JSONDecodeError")

\* The response text, as the pipeline's steps take it, of a text given as
\* characters.
ResponseText(s) ==
    IF json_loads_chars(s).ok THEN JsonText(FALSE, json_loads_chars(s).val)
    ELSE IF Find(s, "{") # 0 /\ RFind(s, "}") # 0 /\ RFind(s, "}") > Find(s, "{")
         THEN IF json_loads_chars(SubSeq(s, Find(s, "{"), RFind(s, "}"))).ok
              THEN JsonText(TRUE, json_loads_chars(SubSeq(s, Find(s, "{"), RFind(s, "}"))).val)
              ELSE BracesText
    ELSE PlainText

(* ------------------------------------------------- inputs of the helpers *)

MaxExtra == 2
MaxCustomLines == 31
MaxTextLen == 4

SeqsUpTo(set, n) == UNION {[1..m -> set] : m \in 0..n}

\* The labels of taxonomy group g, in the order of the multiselect's options.
AllLabels(g) ==
    [i \in 1..Len(feature_taxonomy[g].items) |-> feature_taxonomy[g].items[i][1]]

\* A label picked in group g.
Pick(g, label) == [g |-> g, label |-> label]
Pool == Pick(2, L("Pool (in-ground)", "pool (in-ground)"))
Pickleball == Pick(2, L("Pickleball", "pickleball"))
PickleballCourts == Pick(11, L("Pickleball courts", "pickleball courts"))
\* Labels that are not in the taxonomy: free text, a lone comma, and a text
\* that normalizes to one of Pool's phrases.
ChefsKitchen == Pick(5, L("Chef's Kitchen", "chef's kitchen"))
LoneComma == Pick(5, S("", "", FALSE, FALSE, TRUE))
PoolText == Pick(2, S("POOL", "pool", FALSE, TRUE, FALSE))

PickLists ==
    {<<>>, <<Pool>>, <<PickleballCourts, Pickleball>>, <<ChefsKitchen>>, <<LoneComma>>,
     <<PoolText, Pool>>, <<Pool, ChefsKitchen>>, <<LoneComma, ChefsKitchen>>}

\* How many leading groups of the taxonomy have all their labels selected.
FullGroupChoices == {0, 1, 2}

PickedIn(g, picks) ==
    LET mine == SelectSeq(picks, LAMBDA p : p.g = g) IN
    [i \in 1..Len(mine) |-> mine[i].label]

\* The selection dict: every group in taxonomy order (lines 671-673), the
\* first k groups with all their labels, and the picks added to their groups.
Selected(k, picks) ==
    [g \in 1..Len(feature_taxonomy) |->
        [group |-> feature_taxonomy[g].group,
         labels |-> (IF g <= k THEN AllLabels(g) ELSE <<>>) \o PickedIn(g, picks)]]

\* What a multiselect over a group's labels can return (lines 650-657): labels
\* of that group, none twice.
FromMultiselect(selected) ==
    \A g \in 1..Len(selected) :
        /\ RangeOf(selected[g].labels) \subseteq RangeOf(AllLabels(g))
        /\ \A i, j \in 1..Len(selected[g].labels) :
              selected[g].labels[i] = selected[g].labels[j] => i = j

\* Every list of picks on its own, and a few of them on top of full groups.
Selections ==
    {Selected(0, p) : p \in PickLists}
        \cup {Selected(k, p) : k \in FullGroupChoices,
                               p \in {<<>>, <<ChefsKitchen>>, <<PoolText, Pool>>}}

\* beds and baths: None, 0, or a positive number of halves (2.5 and 2.0).
BedsBaths == {None, Some(0), Some(5)} \X {None, Some(0), Some(4)}

SingleFamily == L("Single Family", "single family")
Condo == L("Condo", "condo")
TypicalFacts ==
    [sqft |-> Some(1600), lot_size |-> Some(5000), year_built |-> Some(1995),
     property_type |-> SingleFamily]
BareFacts ==
    [sqft |-> None, lot_size |-> Some(0), year_built |-> None, property_type |-> V("")]
NumbersAndFacts ==
    {<<bb, TypicalFacts>> : bb \in BedsBaths} \cup {<<<<Some(5), Some(4)>>, BareFacts>>}

\* Extra keywords: one of Pool's phrases as it is, a new word with capitals
\* and surrounding blanks, a phrase of Pool with a doubled space, and a blank;
\* for the function on its own the new word also has a trailing comma.
ExtraPieces ==
    {V("pool"), S("Walkable", "walkable", FALSE, TRUE, FALSE),
     S("in-ground pool", "in-ground pool", TRUE, FALSE, FALSE),
     S("", "", FALSE, TRUE, FALSE)}
ExtraStrings ==
    {V("pool"), S("Walkable", "walkable", FALSE, TRUE, TRUE),
     S("in-ground pool", "in-ground pool", TRUE, FALSE, FALSE),
     S("", "", FALSE, TRUE, FALSE)}

\* Custom lines: the second one blank, every third with doubled spaces.
CustomLines(n) ==
    [i \in 1..n |->
        IF i = 2 THEN S("", "", FALSE, TRUE, FALSE)
        ELSE S("New roof " \o ToString(i), "new roof " \o ToString(i),
               i % 3 = 0, FALSE, FALSE)]
CustomCounts == {0, 2, MaxCustomLines}

HelperCall(fn, selected, bb, facts, extra_keywords, custom_lines, filled, text) ==
    [fn |-> fn, selected |-> selected, beds |-> bb[1], baths |-> bb[2],
     sqft |-> facts.sqft, lot_size |-> facts.lot_size, year_built |-> facts.year_built,
     property_type |-> facts.property_type, extra_keywords |-> extra_keywords,
     custom_lines |-> custom_lines, filled |-> filled, text |-> text]

\* Calls of build_keywords_from_selections on any arguments of its types.
KeywordCalls ==
    {HelperCall("build_keywords_from_selections", s, nf[1], nf[2], e, <<>>, TRUE, NoText) :
        s \in Selections, nf \in NumbersAndFacts, e \in SeqsUpTo(ExtraStrings, MaxExtra)}

\* Calls of build_upgrades_bullets.
BulletCalls ==
    {HelperCall("build_upgrades_bullets", s, <<None, None>>, BareFacts, <<>>,
                CustomLines(n), TRUE, NoText) :
        s \in Selections, n \in CustomCounts}

\* Submissions of the form (lines 610-683): selections from the multiselects,
\* beds and baths floats from 0 in steps of 0.5, ints from 0 (year_built from
\* 1800), a property type of the selectbox, the pieces of the extra keywords
\* text, and the four address fields filled in or not.
FormBedsBaths == {Some(0), Some(5), Some(6)} \X {Some(0), Some(4)}
FormFacts ==
    {[sqft |-> Some(n), lot_size |-> Some(5000), year_built |-> Some(1995),
      property_type |-> t] : n \in {0, 1600}, t \in {SingleFamily, Condo}}
Submissions ==
    {HelperCall("generate", s, bb, f, e, <<>>, filled, NoText) :
        s \in {x \in Selections : FromMultiselect(x)}, bb \in FormBedsBaths,
        f \in FormFacts, e \in SeqsUpTo(ExtraPieces, MaxExtra), filled \in BOOLEAN}

\* Calls of safe_json_extract: None, or any text up to MaxTextLen characters.
ExtractCalls ==
    {HelperCall("safe_json_extract", <<>>, <<None, None>>, BareFacts, <<>>, <<>>, TRUE, t) :
        t \in {NoText} \cup {Text(s) : s \in SeqsUpTo(Alphabet, MaxTextLen)}}

(* ------------------------------------------------ the helpers on their own *)

Ret(keywords, bullets, out, stopped) ==
    [done |-> TRUE, keywords |-> keywords, bullets |-> bullets, out |-> out,
     stopped |-> stopped]

HelperInit ==
    /\ li \in {[mls_char_limit |-> l] : l \in Limits}
    /\ pc = "Start"
    /\ data = EmptyDict
    /\ missing = <<>>
    /\ idx = 1
    /\ calls = <<>>
    /\ result = NoResult
    /\ error = NoError
    /\ lastSaid = [k \in RequiredSet |-> FALSE]
    /\ revision_json = NoRevision
    /\ call \in KeywordCalls \cup BulletCalls \cup Submissions \cup ExtractCalls
    /\ ret = NoRet

Pipeline == <<li, pc, data, missing, idx, calls, result, error, lastSaid, revision_json>>

BuildKeywords ==
    /\ call.fn = "build_keywords_from_selections" /\ ~ret.done
    /\ ret' = Ret(build_keywords_from_selections(call), <<>>, Ok(JFalsy), FALSE)
    /\ UNCHANGED <<call, Pipeline>>

BuildBullets ==
    /\ call.fn = "build_upgrades_bullets" /\ ~ret.done
    /\ ret' = Ret(<<>>, build_upgrades_bullets(call.selected, call.custom_lines),
                  Ok(JFalsy), FALSE)
    /\ UNCHANGED <<call, Pipeline>>

ExtractJson ==
    /\ call.fn = "safe_json_extract" /\ ~ret.done
    /\ ret' = Ret(<<>>, <<>>, safe_json_extract_chars(call.text), FALSE)
    /\ UNCHANGED <<call, Pipeline>>

\* Lines 686-715: the submitted block up to the ListingInput; its keywords and
\* upgrades_bullets fields are kept.
Generate ==
    /\ call.fn = "generate" /\ ~ret.done
    /\ IF ~call.filled
       THEN ret' = Ret(<<>>, <<>>, Ok(JFalsy), TRUE)
       ELSE ret' = Ret(auto_keywords(call), build_upgrades_bullets(call.selected, <<>>),
                       Ok(JFalsy), FALSE)
    /\ UNCHANGED <<call, Pipeline>>

HelperNext == BuildKeywords \/ BuildBullets \/ ExtractJson \/ Generate

HelperSpec == HelperInit /\ [][HelperNext]_vars

(* ------------------------------------------------ vocabulary of the claims *)

\* "A field is present iff it is a string and non-empty after trimming."
NonEmptyTrimmed(d, k) == k \in DOMAIN d /\ d[k].t = "str" /\ d[k].len > 0

AllFourPresent(d) ==
    /\ NonEmptyTrimmed(d, "mls_description")
    /\ NonEmptyTrimmed(d, "social_caption")
    /\ NonEmptyTrimmed(d, "instagram_hashtags")
    /\ NonEmptyTrimmed(d, "video_script_60s")

\* floor(0.9 * limit)
Floor90(limit) == (9 * limit - ((9 * limit) % 10)) \div 10

InBand(limit, n) == Floor90(limit) <= n /\ n <= limit

\* Character count of the description as it stands in d; 0 when d holds no text.
RawLength(d) ==
    IF "mls_description" \in DOMAIN d /\ d["mls_description"].t = "str"
    THEN d["mls_description"].pad + d["mls_description"].len ELSE 0

\* Character count of the description after trimming; 0 when d holds no text.
TrimmedLength(d) ==
    IF "mls_description" \in DOMAIN d /\ d["mls_description"].t = "str"
    THEN d["mls_description"].len ELSE 0

\* d holds a truthy value that is not a string under mls_description.
MlsIsNumber(d) == "mls_description" \in DOMAIN d /\ d["mls_description"].t = "num"

CallsOfKind(kind) == SelectSeq(calls, LAMBDA c : c.kind = kind)

\* The keys of the repair calls issued so far, in the order of the calls.
RepairKeys == [i \in 1..Len(CallsOfKind("repair")) |-> CallsOfKind("repair")[i].key]

\* The step in which the primary call returns a parsed object.
PrimaryParsed == pc = "Start" /\ pc' # "Start" /\ error'.stage \notin {"primary", "validate_and_repair"}

(* --------------------------------------------------------------------- C1 *)

\* C1 as stated: a primary result with four present fields and a description
\* whose length (as returned) is within the band ends the run after 1 call.
C1_RawLengthNoExtraCalls ==
    [][(PrimaryParsed /\ AllFourPresent(data') /\ InBand(li.mls_char_limit, RawLength(data')))
        => (pc' = "Done" /\ calls' = <<Call("primary", "-")>>)]_vars

\* C1 amended: a primary result with four present fields and a description
\* whose length after trimming is within the band ends the run at once, with
\* the primary call as its only model call.
C1_TrimmedLengthNoExtraCalls ==
    [][/\ (PrimaryParsed /\ AllFourPresent(data')
             /\ InBand(li.mls_char_limit, TrimmedLength(data')))
           => (pc' = "Done" /\ calls' = <<Call("primary", "-")>>)
       /\ pc = "Done" => calls' = calls]_vars

\* A run that ended after the primary call alone, on a description that is
\* longer than the limit as returned and within the band once trimmed.
C1_Witness ==
    /\ pc = "Done"
    /\ Len(calls) = 1
    /\ AllFourPresent(data)
    /\ RawLength(data) > li.mls_char_limit
    /\ InBand(li.mls_char_limit, TrimmedLength(data))

(* --------------------------------------------------------------------- C2 *)

\* The required keys that d lacks (absent, not a string, or empty after
\* trimming), in the fixed order of the four keys.
ClaimMissing(d) ==
    SelectSeq(<<"mls_description", "social_caption", "instagram_hashtags", "video_script_60s">>,
              LAMBDA k : k \notin DOMAIN d \/ d[k].t # "str" \/ d[k].len = 0)

\* validate_and_repair has gone through its loop without a failing call.
RepairsOver ==
    \/ pc \in {"Length", "Done"}
    \/ pc = "Failed" /\ error.stage \in {"ensure_length", "revision"}

\* C2: the list of keys to repair is the list of required keys missing in the
\* primary result, in the fixed key order; it never changes afterwards; the
\* repair calls issued are always the first of that list, one per key and in
\* that order, and all of it once every repair call has succeeded.
C2_RepairCallsAreMissingKeys ==
    /\ [][/\ PrimaryParsed => missing' = ClaimMissing(data')
          /\ pc # "Start" => missing' = missing]_vars
    /\ [](pc = "Repair" => RepairKeys = SubSeq(missing, 1, idx - 1))
    /\ [](RepairsOver => RepairKeys = missing)

\* A finished run whose primary result held only a valid mls_description: the
\* three repair calls, in key order, follow the primary call.
C2_Witness ==
    /\ pc = "Done"
    /\ missing = <<"social_caption", "instagram_hashtags", "video_script_60s">>
    /\ calls = <<Call("primary", "-"), Call("repair", "social_caption"),
                 Call("repair", "instagram_hashtags"), Call("repair", "video_script_60s")>>

(* --------------------------------------------------------------------- C3 *)

\* C3 as stated: a repair call that does not fail leaves every required field
\* that was present before it with the value it had.
C3_ValidFieldsPreserved ==
    [][(pc = "Repair" /\ pc' # "Failed")
        => \A k \in RequiredSet :
              NonEmptyTrimmed(data, k) => (k \in DOMAIN data' /\ data'[k] = data[k])]_vars

(* --------------------------------------------------------------------- C4 *)

EntersEnsureLength ==
    /\ pc \in {"Start", "Repair"}
    /\ \/ pc' \in {"Length", "Done"}
       \/ pc' = "Failed" /\ error'.stage = "ensure_length"

RevisionIssued == calls' = Append(calls, Call("revision", "mls_description"))

\* C5 as stated: a revision is requested iff the length of the description, as
\* it stands in the result, is outside the band; at most one revision call.
C5_RawLengthDecidesRevision ==
    /\ [][/\ (EntersEnsureLength /\ pc' # "Failed") =>
                (pc' = "Length" <=> ~InBand(li.mls_char_limit, RawLength(data')))
          /\ RevisionIssued <=> (pc = "Length" /\ pc' # "Length")]_vars
    /\ [](Len(CallsOfKind("revision")) <= 1)

\* C5 amended: ensure_length raises on a truthy non-string description before
\* any call; otherwise a revision is requested iff the length of the trimmed
\* description (an absent or falsy one counting as empty) is outside the band;
\* a revision call is issued exactly then, and at most once in a run.
C5_TrimmedLengthDecidesRevision ==
    /\ [][/\ EntersEnsureLength =>
                /\ pc' = "Failed" <=> MlsIsNumber(data')
                /\ pc' = "Length" <=>
                      (~MlsIsNumber(data') /\ ~InBand(li.mls_char_limit, TrimmedLength(data')))
          /\ RevisionIssued <=> (pc = "Length" /\ pc' # "Length")]_vars
    /\ [](pc = "Length" => Len(CallsOfKind("revision")) = 0)
    /\ [](Len(CallsOfKind("revision")) <= 1)

\* A finished run with limit 1000 that made its one revision call on a draft
\* and returned a description of 850 characters, still outside the band.
C5_Witness ==
    /\ pc = "Done"
    /\ li.mls_char_limit = 1000
    /\ Len(CallsOfKind("revision")) = 1
    /\ TrimmedLength(data) = 850

(* --------------------------------------------------------------------- C6 *)

\* C6 as stated: whatever the revision call comes back with, ensure_length
\* returns a result: a run that has issued its revision call is never failed.
C6_LengthStageNeverRaises == Len(CallsOfKind("revision")) = 1 => pc = "Done"

(* --------------------------------------------------------------------- C7 *)

\* The parsed revision holds a string under mls_description that is non-empty
\* after trimming.
RevisedIsText(rj) == rj.mls.t = "str" /\ rj.mls.len > 0

\* C7 as stated: once the revision call has returned, the result is returned;
\* its mls_description is the revised text when that is a non-empty string after
\* trimming, and is otherwise what it was before the call.
C7_RevisionOverwritesOrKeeps ==
    [][(pc = "Length" /\ revision_json'.returned) =>
          /\ pc' = "Done"
          /\ IF RevisedIsText(revision_json')
             THEN /\ "mls_description" \in DOMAIN data'
                  /\ data'["mls_description"] = [revision_json'.mls EXCEPT !.pad = 0]
             ELSE data' = data]_vars

(* --------------------------------------------------------------------- C8 *)

\* C8: after a failed primary call (transport error, or a text that is not
\* JSON even through the first-'{'-to-last-'}' span) the run is failed, no
\* result is handed over, the primary call is the only model call made, and
\* no further step is taken.
C8_PrimaryFailureIsFinal ==
    /\ [](error.stage = "primary" =>
            /\ pc = "Failed"
            /\ error.exc \in {"TransportError", "JSONDecodeError"}
            /\ ~result.returned
            /\ calls = <<Call("primary", "-")>>)
    /\ [][pc # "Failed"]_vars

\* A run failed by a primary response that could not be parsed.
C8_Witness ==
    /\ pc = "Failed"
    /\ error = Error("primary", "JSONDecodeError")
    /\ Len(calls) = 1

(* --------------------------------------------------------------------- C9 *)

\* C9: after a failed repair call the run is failed at that call: the calls
\* made are the primary call and the repair calls up to the failing one, no
\* revision call among them, no result is handed over, and no further step is
\* taken.
C9_RepairFailureIsFinal ==
    /\ [](error.stage = "repair" =>
            /\ pc = "Failed"
            /\ error.exc \in {"TransportError", "JSONDecodeError"}
            /\ ~result.returned
            /\ Len(calls) = 1 + idx
            /\ RepairKeys = SubSeq(missing, 1, idx)
            /\ Len(CallsOfKind("revision")) = 0)
    /\ [][pc # "Failed"]_vars

\* A run failed by its second repair call while a third key was still to be
\* repaired and the first repair had already filled its field.
C9_Witness ==
    /\ pc = "Failed"
    /\ error.stage = "repair"
    /\ idx = 2
    /\ Len(missing) = 3
    /\ NonEmptyTrimmed(data, missing[1])

(* -------------------------------------------------------------------- C10 *)

\* The calls made so far are one primary call, then repair calls, then at
\* most one revision call.
CallOrder ==
    /\ Len(calls) >= 1 => calls[1].kind = "primary"
    /\ \A i \in 2..Len(calls) : calls[i].kind \in {"repair", "revision"}
    /\ \A i, j \in 1..Len(calls) :
          (i < j /\ calls[i].kind = "revision") => calls[j].kind # "repair"
    /\ Len(CallsOfKind("primary")) <= 1
    /\ Len(CallsOfKind("repair")) <= 4
    /\ Len(CallsOfKind("revision")) <= 1
    /\ Len(calls) <= 6

\* C10: every step of a run is one model call, issued after the previous one
\* has come back; the calls are one primary call, then 0 to 4 repair calls,
\* then 0 or 1 revision call, at most 6 in all; and a run that has neither
\* returned nor failed can always take its next step, so that every run ends,
\* returned or failed, after at most 6 calls.
C10_SequentialBoundedCalls ==
    /\ []CallOrder
    /\ [][Len(calls') = Len(calls) + 1 /\ SubSeq(calls', 1, Len(calls)) = calls]_vars
    /\ [](pc \in {"Done", "Failed"} \/ ENABLED Next)
    /\ [](pc \in {"Start", "Repair", "Length", "Done", "Failed"})

\* A run that returned after all six calls.
C10_Witness ==
    /\ pc = "Done"
    /\ Len(calls) = 6
    /\ Len(CallsOfKind("repair")) = 4
    /\ Len(CallsOfKind("revision")) = 1

(* ------------------------------------- vocabulary of the helpers' claims *)

KeywordsReturned == call.fn = "build_keywords_from_selections" /\ ret.done
BulletsReturned == call.fn = "build_upgrades_bullets" /\ ret.done
Submitted == call.fn = "generate" /\ ret.done /\ ~ret.stopped
Extracted == call.fn = "safe_json_extract" /\ ret.done

\* No two entries are equal after normalization.
NoTwoEqualNormalized(keywords) ==
    Cardinality({NormalizeToken(keywords[i]) : i \in 1..Len(keywords)}) = Len(keywords)

\* The place in tokens where the normalized form k is first seen; 0 if nowhere.
FirstSeenAt(tokens, k) ==
    LET at == {i \in 1..Len(tokens) : NormalizeToken(tokens[i]) = k} IN
    IF at = {} THEN 0 ELSE CHOOSE i \in at : \A j \in at : i <= j

\* The token sequence named by the claims: the expansions of the selected
\* labels, then the numeric and property-type tokens, then the extra keywords.
ClaimTokens ==
    SelectionTokens(call.selected)
        \o BedsToken(call.beds) \o BathsToken(call.baths) \o SqftToken(call.sqft)
        \o LotToken(call.lot_size) \o YearToken(call.year_built)
        \o TypeToken(call.property_type)
        \o SelectSeq(call.extra_keywords, LAMBDA k : NonEmpty(str_strip(k)))

(* -------------------------------------------------------------------- C11 *)

\* C11 as stated: the keywords of the ListingInput built at submission hold
\* no two entries equal after normalization, and at most 60 entries.
C11_SubmittedKeywordsDedupedCapped ==
    Submitted => (NoTwoEqualNormalized(ret.keywords) /\ Len(ret.keywords) <= 60)

(* -------------------------------------------------------------------- C12 *)

\* C12: the list returned by build_keywords_from_selections holds no two
\* entries equal after normalization; every entry is the normalized form of a
\* token; and each entry's normalized form is first seen in the token sequence
\* before the next entry's, so that the entries stand in first-seen order.
C12_DedupedInFirstSeenOrder ==
    KeywordsReturned =>
        LET tokens == ClaimTokens IN
        /\ NoTwoEqualNormalized(ret.keywords)
        /\ \A m \in 1..Len(ret.keywords) : FirstSeenAt(tokens, ret.keywords[m]) # 0
        /\ \A m \in 1..(Len(ret.keywords) - 1) :
              FirstSeenAt(tokens, ret.keywords[m]) < FirstSeenAt(tokens, ret.keywords[m + 1])

\* A returned list one of whose entries was seen twice in the tokens, written
\* in two different ways.
C12_Witness ==
    /\ KeywordsReturned
    /\ LET tokens == ClaimTokens IN
       \E i, j \in 1..Len(tokens) :
        /\ i < j
        /\ tokens[i] # tokens[j]
        /\ NormalizeToken(tokens[i]) = NormalizeToken(tokens[j])
        /\ NormalizeToken(tokens[i]) \in RangeOf(ret.keywords)

(* -------------------------------------------------------------------- C13 *)

InTaxonomy(label) == \E i \in 1..Len(TaxonomyItems) : TaxonomyItems[i][1] = label

CanonicalPhrases(label) ==
    RangeOf(TaxonomyItems[CHOOSE i \in 1..Len(TaxonomyItems) : TaxonomyItems[i][1] = label][2])

\* C13 as stated: every selected label has its keywords in the returned list:
\* its canonical phrases when it is in the taxonomy, else its own normalized
\* text.
C13_EveryLabelInReturnedList ==
    KeywordsReturned =>
        LET returned == RangeOf(ret.keywords) IN
        \A label \in RangeOf(SelectedLabels(call.selected)) :
            IF InTaxonomy(label)
            THEN CanonicalPhrases(label) # {}
                 /\ CanonicalPhrases(label) \subseteq returned
            ELSE NormalizeToken(label) \in returned

\* C13 amended: every selected label expands to at least one token, its
\* canonical phrases when it is in the taxonomy, else its own text; and each of
\* these that is not empty after normalization is in the returned list in
\* normalized form, unless the list has reached its 60 entries.
C13_EveryLabelUnlessFullOrEmpty ==
    KeywordsReturned =>
        LET returned == RangeOf(ret.keywords)
            tokens == RangeOf(ClaimTokens)
        IN \A label \in RangeOf(SelectedLabels(call.selected)) :
            LET expansion == IF InTaxonomy(label) THEN CanonicalPhrases(label) ELSE {label} IN
            /\ expansion # {}
            /\ expansion \subseteq tokens
            /\ \A t \in expansion :
                  \/ NormalizeToken(t) \in returned
                  \/ NormalizeToken(t).text = ""
                  \/ Len(ret.keywords) = 60

\* A returned list, not full, holding the phrases of a taxonomy label and the
\* normalized text of a label that is not in the taxonomy.
C13_Witness ==
    /\ KeywordsReturned
    /\ Len(ret.keywords) < 60
    /\ Pool.label \in RangeOf(SelectedLabels(call.selected))
    /\ ChefsKitchen.label \in RangeOf(SelectedLabels(call.selected))
    /\ {V("pool"), V("in-ground pool"), V("chef's kitchen")} \subseteq RangeOf(ret.keywords)

(* -------------------------------------------------------------------- C14 *)

\* C14: build_keywords_from_selections returns at most 60 entries and
\* build_upgrades_bullets at most 30 lines.
C14_KeywordAndBulletCaps ==
    /\ KeywordsReturned => Len(ret.keywords) <= 60
    /\ BulletsReturned => Len(ret.bullets) <= 30

\* A bullets string of 30 lines returned when more than 30 lines were built.
C14_Witness ==
    /\ BulletsReturned
    /\ Len(ret.bullets) = 30
    /\ Len(GroupBullets(call.selected)) + Len(CustomBullets(call.custom_lines)) > 30

(* -------------------------------------------------------------------- C15 *)

BedroomsTexts == {"0 bedrooms", "1 bedrooms", "2 bedrooms", "3 bedrooms"}

\* C15: with beds None or 0 no "N bedrooms" token is among the tokens or in
\* the returned list; with baths not None the "N bathrooms" token is among
\* the tokens, "0.0 bathrooms" for baths = 0, and is in the returned list
\* unless the list has reached its 60 entries.
C15_BedsTruthyBathsNotNone ==
    KeywordsReturned =>
        LET returned == RangeOf(ret.keywords)
            tokens == RangeOf(ClaimTokens)
        IN /\ (call.beds = None \/ call.beds = Some(0)) =>
                 \A t \in tokens \cup returned : t.text \notin BedroomsTexts
           /\ \A b \in {<<Some(0), "0.0 bathrooms">>, <<Some(4), "2.0 bathrooms">>} :
                 call.baths = b[1] =>
                     /\ V(b[2]) \in tokens
                     /\ V(b[2]) \in returned \/ Len(ret.keywords) = 60

\* beds = 0 and baths = 0: a list with "0.0 bathrooms" and no bedrooms entry.
C15_Witness ==
    /\ KeywordsReturned
    /\ call.beds = Some(0)
    /\ call.baths = Some(0)
    /\ V("0.0 bathrooms") \in RangeOf(ret.keywords)
    /\ \A t \in RangeOf(ret.keywords) : t.text \notin BedroomsTexts

(* -------------------------------------------------------------------- C16 *)

\* s is a JSON document, and its parse.
ValidJson(s) == json_loads_chars(s).ok
ParseOf(s) == json_loads_chars(s).val

\* The substring from the first '{' to the last '}' inclusive, when there is a
\* '{' with a '}' somewhere after it.
HasOpenThenClose(s) == \E i, j \in 1..Len(s) : i < j /\ s[i] = "{" /\ s[j] = "}"
FirstOpenToLastClose(s) ==
    LET i == CHOOSE x \in 1..Len(s) : s[x] = "{" /\ \A y \in 1..Len(s) : s[y] = "{" => x <= y
        j == CHOOSE x \in 1..Len(s) : s[x] = "}" /\ \A y \in 1..Len(s) : s[y] = "}" => y <= x
    IN SubSeq(s, i, j)

\* C16: safe_json_extract returns the parse of the full text when that is
\* JSON; otherwise the parse of the substring from the first '{' to the last
\* '}' when that is JSON; in every other case it raises JSONDecodeError. The
\* response text of the pipeline's steps gives the same outcome.
C16_FullThenBraceSpanElseRaise ==
    Extracted =>
        LET s == TextOrEmpty(call.text) IN
        /\ IF ValidJson(s) THEN ret.out = Ok(ParseOf(s))
           ELSE IF HasOpenThenClose(s) /\ ValidJson(FirstOpenToLastClose(s))
                THEN ret.out = Ok(ParseOf(FirstOpenToLastClose(s)))
           ELSE ~ret.out.ok /\ ret.out.exc = "JSONDecodeError"
        /\ safe_json_extract(ResponseText(s)) = ret.out

\* A text that is not JSON as a whole and whose brace span is.
C16_Witness ==
    /\ Extracted
    /\ call.text = Text(<<"x", "{", "}", "x">>)
    /\ ret.out = Ok(JObject(EmptyDict))

(* -------------------------------------------------------------------- C17 *)

\* Every key other than mls_description is in both results or in neither, and
\* has the same value in both.
SameOutsideDescription(before, after) ==
    \A k \in Keys \ {"mls_description"} :
        /\ k \in DOMAIN after <=> k \in DOMAIN before
        /\ k \in DOMAIN before => after[k] = before[k]

====
